---------------------------- MODULE Spec2Model ----------------------------
(***************************************************************************)
(* Model of funk_svd_mod/fast_methods.py: the numba-compiled kernels of a  *)
(* biased matrix-factorisation recommender with a fairness projection.     *)
(*                                                                         *)
(*   _shuffle              in-place row shuffle of the training set        *)
(*   _run_epoch            one SGD pass over the training set              *)
(*   _compute_val_metrics  loss / rmse / mae over a validation set         *)
(*                                                                         *)
(* float64 values are modelled as exact rationals <<n, d>> in lowest terms *)
(* with d > 0.  The kernels are compiled by @njit with numba's default     *)
(* error model, under which a float division by zero raises                *)
(* ZeroDivisionError; the raised error is modelled by the value <<0, 0>>   *)
(* and by the control state "ZeroDivisionError".                           *)
(* Arrays are functions over 0 .. n-1, as the source indexes them.         *)
(***************************************************************************)
EXTENDS Integers, Sequences, FiniteSets, TLC

VARIABLES
    X,              \* training set: 0..n-1 -> <<user, item, rating>>
    bu, bi,         \* user / item bias vectors
    pu, qi,         \* user / item latent factor matrices
    global_mean, n_factors, lr, reg,
    clusters_diff, is_women_dict, is_men_dict,
    i,              \* loop index of the running kernel
    pc,             \* control state of the running kernel
    loc,            \* locals of the last row processed by _run_epoch
    pre,            \* bu, bi, pu, qi as they were just before that row
    entry,          \* arguments as they were when the kernel was called
    order,          \* indices of the rows processed so far, in order
    X_val,          \* validation set
    residuals,      \* list built by _compute_val_metrics
    metrics         \* value returned by _compute_val_metrics

vars == <<X, bu, bi, pu, qi, global_mean, n_factors, lr, reg, clusters_diff,
          is_women_dict, is_men_dict, i, pc, loc, pre, entry, order,
          X_val, residuals, metrics>>

(***************************************************************************)
(* Bounds of the model.                                                    *)
(***************************************************************************)
MaxRows == 2        \* rows in a training set of the one-factor family
MaxFairRows == 1    \* rows in a training set of the two-factor family
MaxValRows == 2     \* rows in a validation set
MaxShuffleRows == 3 \* rows in a set handed to _shuffle

(***************************************************************************)
(* float64 arithmetic, exact.                                              *)
(***************************************************************************)
Abs(x) == IF x < 0 THEN -x ELSE x

RECURSIVE GCD(_, _)
GCD(a, b) == IF b = 0 THEN a ELSE GCD(b, a % b)

Frac(n, d) ==
    LET g == GCD(Abs(n), Abs(d))
        s == IF d < 0 THEN -1 ELSE 1
    IN  <<(s * n) \div g, (s * d) \div g>>

R(n) == <<n, 1>>

ZeroDivisionError == <<0, 0>>

Raised(a) == a[2] = 0

\* Sums and products are formed over the least common denominator and
\* after cross-cancelling, so that intermediate integers stay small.
Add(a, b) ==
    LET g == GCD(a[2], b[2])
    IN  Frac(a[1] * (b[2] \div g) + b[1] * (a[2] \div g), (a[2] \div g) * b[2])

Neg(a) == <<-a[1], a[2]>>

Sub(a, b) == Add(a, Neg(b))

Mul(a, b) ==
    LET g1 == GCD(Abs(a[1]), b[2])
        g2 == GCD(Abs(b[1]), a[2])
    IN  Frac((a[1] \div g1) * (b[1] \div g2), (a[2] \div g2) * (b[2] \div g1))

Div(a, b) == IF b[1] = 0 THEN ZeroDivisionError ELSE Frac(a[1] * b[2], a[2] * b[1])

Lt(a, b) == a[1] * b[2] < b[1] * a[2]

RECURSIVE ISqrtIn(_, _, _)
ISqrtIn(n, lo, hi) ==
    IF lo >= hi THEN lo
    ELSE LET mid == (lo + hi + 1) \div 2
         IN  IF mid * mid <= n THEN ISqrtIn(n, mid, hi) ELSE ISqrtIn(n, lo, mid - 1)

ISqrt(n) == ISqrtIn(n, 0, IF n < 46340 THEN n ELSE 46340)

\* np.sqrt: exact where the root is rational, otherwise rounded down to 1/100.
Sqrt(a) ==
    LET rn == ISqrt(a[1])
        rd == ISqrt(a[2])
    IN  IF rn * rn = a[1] /\ rd * rd = a[2] THEN <<rn, rd>>
        ELSE Frac(ISqrt((a[1] * 10000) \div a[2]), 100)

\* int(x) of a float: truncation toward zero.
ToInt(a) == IF a[1] >= 0 THEN a[1] \div a[2] ELSE -((-a[1]) \div a[2])

(***************************************************************************)
(* Vectors: functions 0 .. k-1 -> float64.                                 *)
(***************************************************************************)
RECURSIVE DotUpTo(_, _, _)
DotUpTo(a, b, k) == IF k = 0 THEN R(0) ELSE Add(DotUpTo(a, b, k - 1), Mul(a[k - 1], b[k - 1]))

Dot(a, b) == DotUpTo(a, b, Cardinality(DOMAIN a))

VSub(a, b) == [f \in DOMAIN a |-> Sub(a[f], b[f])]

VAdd(a, b) == [f \in DOMAIN a |-> Add(a[f], b[f])]

VScale(c, a) == [f \in DOMAIN a |-> Mul(c, a[f])]

\* (v ** 2).sum()
SumSq(a) == Dot(a, a)


Vec1(a) == (0 :> a)

Vec2(a, b) == (0 :> a @@ 1 :> b)

\* X.shape[0]
NRows(A) == Cardinality(DOMAIN A)

(***************************************************************************)
(* _run_epoch: the statements of one iteration of the row loop.            *)
(***************************************************************************)
\* pred = global_mean + bu[user] + bi[item]; pred += pu[user, f] * qi[item, f]
Predict(P, user, item) ==
    Add(Add(Add(global_mean, P.bu[user]), P.bi[item]),
        DotUpTo(P.pu[user], P.qi[item], n_factors))

\* b += lr * (err - reg * b)
BiasUpdate(b, err) == Add(b, Mul(lr, Sub(err, Mul(reg, b))))

\* x + lr * (err * y - reg * x)
SgdStep(x, y, err) == Add(x, Mul(lr, Sub(Mul(err, y), Mul(reg, x))))

\* new_qi[factor] = qi[item, factor] + lr * (err * puf - reg * qif)
NewQiStale(puRow, qiRow, err) ==
    [f \in 0 .. n_factors - 1 |-> SgdStep(qiRow[f], SgdStep(puRow[f], qiRow[f], err), err)]

NewQi(puRow, qiRow, err) ==
    [f \in 0 .. n_factors - 1 |-> SgdStep(qiRow[f], puRow[f], err)]

\* pu[user, factor] += lr * (err * qif - reg * puf)
NewPu(puRow, qiRow, err) ==
    [f \in 0 .. n_factors - 1 |-> SgdStep(puRow[f], qiRow[f], err)]

\* np.dot(c, d) / (np.sqrt((c ** 2).sum()) * np.sqrt((d ** 2).sum()))
CosineSim(c, d) == Div(Dot(c, d), Mul(Sqrt(SumSq(c)), Sqrt(SumSq(d))))

\* the if / elif / else that assigns qi[item]
CommitClamped(old_qi, new_qi, cosine_sim, is_woman, is_men) ==
    IF (Lt(cosine_sim, R(0)) /\ is_woman) \/ (Lt(R(0), cosine_sim) /\ is_men)
    THEN old_qi
    ELSE new_qi

CommitComplement(old_qi, new_qi, cosine_sim, is_woman, is_men) ==
    IF Lt(cosine_sim, R(0)) /\ is_woman
    THEN VAdd(old_qi, VScale(Add(R(1), cosine_sim), VSub(new_qi, old_qi)))
    ELSE IF Lt(R(0), cosine_sim) /\ is_men
    THEN VAdd(old_qi, VScale(Sub(R(1), cosine_sim), VSub(new_qi, old_qi)))
    ELSE new_qi

Commit(old_qi, new_qi, cosine_sim, is_woman, is_men) ==
    IF Lt(cosine_sim, R(0)) /\ is_woman
    THEN VSub(old_qi, VScale(cosine_sim, VSub(new_qi, old_qi)))
    ELSE IF Lt(R(0), cosine_sim) /\ is_men
    THEN VAdd(old_qi, VScale(cosine_sim, VSub(new_qi, old_qi)))
    ELSE new_qi

\* a[k] = v (also the effect of a[k] += ...): one entry is written in place
StoreAll(a, k, v) == [j \in DOMAIN a |-> v]

Store(a, k, v) == [a EXCEPT ![k] = v]

\* The loop body on parameters P and training row `row`: the parameters it
\* leaves, its locals, and whether the division raised.
RowUpdate(P, row) ==
    LET user == ToInt(row[1])
        item == ToInt(row[2])
        rating == row[3]
        pred == Predict(P, user, item)
        err == Sub(rating, pred)
        old_qi == [f \in 0 .. n_factors - 1 |-> P.qi[item][f]]
        new_qi == NewQi(P.pu[user], P.qi[item], err)
        is_woman == item \in is_women_dict
        is_men == item \in is_men_dict
        embedding_diff == VSub(new_qi, old_qi)
        cosine_sim == IF is_woman \/ is_men
                      THEN CosineSim(clusters_diff, embedding_diff)
                      ELSE R(0)
        raised == Raised(cosine_sim)
    IN  [bu |-> Store(P.bu, user, BiasUpdate(P.bu[user], err)),
         bi |-> Store(P.bi, item, BiasUpdate(P.bi[item], err)),
         pu |-> Store(P.pu, user, NewPu(P.pu[user], P.qi[item], err)),
         qi |-> IF raised THEN P.qi
                ELSE Store(P.qi, item,
                           Commit(old_qi, new_qi, cosine_sim, is_woman, is_men)),
         raised |-> raised,
         loc |-> [user |-> user, item |-> item, rating |-> rating, pred |-> pred,
                  err |-> err, old_qi |-> old_qi, new_qi |-> new_qi,
                  is_woman |-> is_woman, is_men |-> is_men,
                  embedding_diff |-> embedding_diff, cosine_sim |-> cosine_sim]]

Params == [bu |-> bu, bi |-> bi, pu |-> pu, qi |-> qi]

Arguments ==
    [X |-> X, params |-> Params, global_mean |-> global_mean,
     n_factors |-> n_factors, lr |-> lr, reg |-> reg,
     clusters_diff |-> clusters_diff,
     is_women_dict |-> is_women_dict, is_men_dict |-> is_men_dict]

(***************************************************************************)
(* Inputs of _run_epoch.                                                   *)
(***************************************************************************)
UnitDir == Vec2(<<3, 5>>, <<4, 5>>)

TrainRows == {<<R(u), R(it), R(r)>> : u \in 0 .. 1, it \in 0 .. 1, r \in 3 .. 4}

TrainingSets(max) == UNION {[0 .. n - 1 -> TrainRows] : n \in 0 .. max}

TagSets == {<<{}, {}>>, <<{0}, {1}>>, <<{1}, {0, 1}>>}

LearningRates == {R(0), <<1, 2>>}

Regs == {R(0), R(1)}

Idle ==
    /\ loc = <<>> /\ order = <<>>
    /\ X_val = <<>> /\ residuals = <<>> /\ metrics = <<>>

Hyper ==
    /\ global_mean = R(3)
    /\ lr \in LearningRates
    /\ reg \in Regs
    /\ \E t \in TagSets : is_women_dict = t[1] /\ is_men_dict = t[2]

\* One factor: the cosine similarity of two non-zero vectors is 1 or -1.
InitOneFactor ==
    /\ n_factors = 1
    /\ bu = (0 :> R(0) @@ 1 :> R(0))
    /\ bi = (0 :> R(0) @@ 1 :> R(0))
    /\ pu = (0 :> Vec1(R(1)) @@ 1 :> Vec1(R(-1)))
    /\ qi = (0 :> Vec1(R(0)) @@ 1 :> Vec1(R(1)))
    /\ X \in TrainingSets(MaxRows)
    /\ clusters_diff \in {Vec1(R(0)), Vec1(R(1)), Vec1(R(-1))}
    /\ Hyper

\* Two factors: every factor vector is a multiple of UnitDir, so that every
\* norm the kernel takes is rational; the cosine similarities that occur are
\* 0, 7/25, 3/5, 1 and their negatives.
InitTwoFactors ==
    /\ n_factors = 2
    /\ bu = (0 :> R(0) @@ 1 :> R(0))
    /\ bi = (0 :> R(0) @@ 1 :> R(0))
    /\ pu = (0 :> UnitDir @@ 1 :> VScale(R(-1), UnitDir))
    /\ qi = (0 :> VScale(R(0), UnitDir) @@ 1 :> UnitDir)
    /\ X \in TrainingSets(MaxFairRows)
    /\ clusters_diff \in {Vec2(R(0), R(0)), Vec2(R(1), R(0)), Vec2(R(-3), R(-4)),
                          Vec2(R(4), R(-3)), Vec2(R(-3), R(4))}
    /\ Hyper

\* The end-to-end scenario: one factor, one row, no fairness tags.
InitScenario ==
    /\ n_factors = 1
    /\ bu = (0 :> R(0) @@ 1 :> R(0))
    /\ bi = (0 :> R(0) @@ 1 :> R(0))
    /\ pu = (0 :> Vec1(<<1, 10>>) @@ 1 :> Vec1(<<1, 5>>))
    /\ qi = (0 :> Vec1(<<1, 10>>) @@ 1 :> Vec1(<<1, 5>>))
    /\ global_mean = R(3)
    /\ X = (0 :> <<R(0), R(1), R(4)>>)
    /\ lr = <<1, 10>>
    /\ reg = R(0)
    /\ clusters_diff = Vec1(R(1))
    /\ is_women_dict = {} /\ is_men_dict = {}

Init ==
    /\ InitOneFactor \/ InitTwoFactors \/ InitScenario
    /\ i = 0
    /\ pc = "run_epoch"
    /\ pre = Params
    /\ entry = Arguments
    /\ Idle

(***************************************************************************)
(* _run_epoch: the actions.                                                *)
(***************************************************************************)
Inputs == <<X, global_mean, n_factors, lr, reg, clusters_diff,
            is_women_dict, is_men_dict>>

\* One iteration of `for i in range(X.shape[0])`.
RunEpochRow ==
    /\ pc = "run_epoch"
    /\ i < NRows(X)
    /\ LET out == RowUpdate(Params, X[i])
       IN  /\ bu' = out.bu
           /\ bi' = out.bi
           /\ pu' = out.pu
           /\ qi' = out.qi
           /\ loc' = out.loc
           /\ pc' = IF out.raised THEN "ZeroDivisionError" ELSE "run_epoch"
           /\ i' = IF out.raised THEN i ELSE i + 1
    /\ pre' = Params
    /\ order' = Append(order, i)
    /\ UNCHANGED <<Inputs, entry, X_val, residuals, metrics>>

\* return bu, bi, pu, qi
RunEpochReturn ==
    /\ pc = "run_epoch"
    /\ i = NRows(X)
    /\ pc' = "returned"
    /\ UNCHANGED <<Inputs, bu, bi, pu, qi, i, loc, pre, entry, order,
                   X_val, residuals, metrics>>

Next == RunEpochRow \/ RunEpochReturn

Spec == Init /\ [][Next]_vars

(***************************************************************************)
(* _shuffle: np.random.shuffle(X), a Fisher-Yates shuffle of the rows.     *)
(***************************************************************************)
\* x[[i, j]] = x[[j, i]]
SwapAliased(A, a, b) == [A EXCEPT ![a] = A[b]]

Swap(A, a, b) == [A EXCEPT ![a] = A[b], ![b] = A[a]]

ShuffleRows == {<<R(0), R(0), R(3)>>, <<R(0), R(1), R(4)>>, <<R(1), R(0), R(3)>>}

ShuffleSets == UNION {[0 .. n - 1 -> ShuffleRows] : n \in 0 .. MaxShuffleRows}

Unused ==
    /\ bu = <<>> /\ bi = <<>> /\ pu = <<>> /\ qi = <<>>
    /\ global_mean = R(0) /\ n_factors = 0 /\ lr = R(0) /\ reg = R(0)
    /\ clusters_diff = <<>> /\ is_women_dict = {} /\ is_men_dict = {}

InitShuffle ==
    /\ X \in ShuffleSets
    /\ Unused
    /\ i = NRows(X) - 1
    /\ pc = "shuffle"
    /\ pre = <<>>
    /\ entry = [X |-> X]
    /\ Idle

\* One draw j = randint(i + 1) and the swap of rows i and j.
ShuffleStep ==
    /\ pc = "shuffle"
    /\ i > 0
    /\ \E j \in 0 .. i : X' = Swap(X, i, j)
    /\ i' = i - 1
    /\ UNCHANGED <<bu, bi, pu, qi, global_mean, n_factors, lr, reg, clusters_diff,
                   is_women_dict, is_men_dict, pc, loc, pre, entry, order,
                   X_val, residuals, metrics>>

\* return X
ShuffleReturn ==
    /\ pc = "shuffle"
    /\ i <= 0
    /\ pc' = "returned"
    /\ UNCHANGED <<X, bu, bi, pu, qi, global_mean, n_factors, lr, reg,
                   clusters_diff, is_women_dict, is_men_dict, i, loc, pre, entry,
                   order, X_val, residuals, metrics>>

NextShuffle == ShuffleStep \/ ShuffleReturn

SpecShuffle == InitShuffle /\ [][NextShuffle]_vars

(***************************************************************************)
(* _compute_val_metrics.                                                   *)
(***************************************************************************)
\* pred = global_mean, plus the terms of the known user and item
ValPredictOffByOne(user, item) ==
    LET p0 == global_mean
        p1 == IF user > 0 THEN Add(p0, bu[user]) ELSE p0
        p2 == IF item > -1 THEN Add(p1, bi[item]) ELSE p1
    IN  IF user > -1 /\ item > -1
        THEN Add(p2, DotUpTo(pu[user], qi[item], n_factors))
        ELSE p2

ValPredict(user, item) ==
    LET p0 == global_mean
        p1 == IF user > -1 THEN Add(p0, bu[user]) ELSE p0
        p2 == IF item > -1 THEN Add(p1, bi[item]) ELSE p1
    IN  IF user > -1 /\ item > -1
        THEN Add(p2, DotUpTo(pu[user], qi[item], n_factors))
        ELSE p2

RECURSIVE SumSeq(_)
SumSeq(s) == IF s = <<>> THEN R(0) ELSE Add(s[1], SumSeq(Tail(s)))

\* arr.mean(): the sum divided by arr.size
MeanOrZero(s) == IF s = <<>> THEN R(0) ELSE Div(SumSeq(s), R(Len(s)))

Mean(s) == Div(SumSeq(s), R(Len(s)))

\* np.square(residuals)
Square(s) == [k \in DOMAIN s |-> Mul(s[k], s[k])]

\* np.absolute(residuals)
Absolute(s) == [k \in DOMAIN s |-> <<Abs(s[k][1]), s[k][2]>>]

ValRows == {<<R(u), R(it), R(r)>> : u \in -1 .. 1, it \in -1 .. 1, r \in 3 .. 4}

ValidationSets == UNION {[0 .. n - 1 -> ValRows] : n \in 0 .. MaxValRows}

InitVal ==
    /\ X_val \in ValidationSets
    /\ n_factors = 2
    /\ bu = (0 :> <<1, 2>> @@ 1 :> R(0))
    /\ bi = (0 :> <<1, 2>> @@ 1 :> R(-1))
    /\ pu = (0 :> UnitDir @@ 1 :> VScale(R(-1), UnitDir))
    /\ qi = (0 :> VScale(R(0), UnitDir) @@ 1 :> UnitDir)
    /\ global_mean = R(3)
    /\ X = <<>> /\ lr = R(0) /\ reg = R(0)
    /\ clusters_diff = <<>> /\ is_women_dict = {} /\ is_men_dict = {}
    /\ i = 0
    /\ pc = "compute_val_metrics"
    /\ pre = <<>>
    /\ entry = [X_val |-> X_val, params |-> Params]
    /\ loc = <<>> /\ order = <<>> /\ residuals = <<>> /\ metrics = <<>>

Model == <<X, bu, bi, pu, qi, global_mean, n_factors, lr, reg, clusters_diff,
           is_women_dict, is_men_dict>>

\* One iteration of `for i in range(X_val.shape[0])`.
ValRow ==
    /\ pc = "compute_val_metrics"
    /\ i < NRows(X_val)
    /\ LET user == ToInt(X_val[i][1])
           item == ToInt(X_val[i][2])
           rating == X_val[i][3]
       IN  residuals' = Append(residuals, Sub(rating, ValPredict(user, item)))
    /\ i' = i + 1
    /\ UNCHANGED <<Model, pc, loc, pre, entry, order, X_val, metrics>>

\* loss, rmse, mae and the return
ValReturn ==
    /\ pc = "compute_val_metrics"
    /\ i = NRows(X_val)
    /\ LET loss == Mean(Square(residuals))
           rmse == IF Raised(loss) THEN loss ELSE Sqrt(loss)
           mae == Mean(Absolute(residuals))
       IN  IF Raised(loss) \/ Raised(mae)
           THEN pc' = "ZeroDivisionError" /\ metrics' = metrics
           ELSE pc' = "returned" /\ metrics' = <<loss, rmse, mae>>
    /\ UNCHANGED <<Model, i, loc, pre, entry, order, X_val, residuals>>

NextVal == ValRow \/ ValReturn

SpecVal == InitVal /\ [][NextVal]_vars

(***************************************************************************)
(* Properties of _run_epoch (specification Spec).                          *)
(***************************************************************************)
Processed == order # <<>>

LastRow == X[order[Len(order)]]

LastUser == ToInt(LastRow[1])

LastItem == ToInt(LastRow[2])

Tagged(item) == item \in is_women_dict \/ item \in is_men_dict

Zero(v) == \A f \in DOMAIN v : v[f] = R(0)

AbsR(a) == IF a[1] < 0 THEN Neg(a) ELSE a

\* cos is the cosine of the angle between the non-zero vectors c and d
IsCosine(cos, c, d) ==
    /\ Mul(Mul(cos, cos), Mul(SumSq(c), SumSq(d))) = Mul(Dot(c, d), Dot(c, d))
    /\ Lt(cos, R(0)) <=> Lt(Dot(c, d), R(0))

\* The row just processed took one of the two damping branches.
Damped ==
    /\ Processed
    /\ ~Raised(loc.cosine_sim)
    /\ \/ LastItem \in is_women_dict /\ Lt(loc.cosine_sim, R(0))
       \/ LastItem \in is_men_dict /\ Lt(R(0), loc.cosine_sim)

\* C1: after every processed row, bu[user], bi[item] and pu[user] hold the
\* regularised SGD update computed from the values held just before the row,
\* pu[user] with the pre-update qi[item], and the candidate new_qi is computed
\* from the pre-update pu[user]; the end-to-end scenario returns bu[0] = 0.098,
\* bi[1] = 0.098, pu[0] = 0.1196 and qi[1] = 0.2098.
C1_RowUpdateIsRegularisedSgd ==
    /\ Processed =>
         LET user == LastUser
             item == LastItem
             pred == Add(Add(Add(global_mean, pre.bu[user]), pre.bi[item]),
                         Dot(pre.pu[user], pre.qi[item]))
             err == Sub(LastRow[3], pred)
         IN  /\ bu[user] = Add(pre.bu[user], Mul(lr, Sub(err, Mul(reg, pre.bu[user]))))
             /\ bi[item] = Add(pre.bi[item], Mul(lr, Sub(err, Mul(reg, pre.bi[item]))))
             /\ \A f \in 0 .. n_factors - 1 :
                  /\ pu[user][f] =
                       Add(pre.pu[user][f],
                           Mul(lr, Sub(Mul(err, pre.qi[item][f]), Mul(reg, pre.pu[user][f]))))
                  /\ loc.new_qi[f] =
                       Add(pre.qi[item][f],
                           Mul(lr, Sub(Mul(err, pre.pu[user][f]), Mul(reg, pre.qi[item][f]))))
    /\ (lr = <<1, 10>> /\ pc = "returned") =>
         /\ bu[0] = Frac(98, 1000)
         /\ bi[1] = Frac(98, 1000)
         /\ pu[0][0] = Frac(1196, 10000)
         /\ qi[1][0] = Frac(2098, 10000)

C1_Witness ==
    /\ Processed
    /\ n_factors = 2 /\ lr # R(0) /\ reg # R(0) /\ loc.err # R(0)
    /\ pu[LastUser] # pre.pu[LastUser]
    /\ loc.new_qi # pre.qi[LastItem]

\* C2: the value committed to qi[item] is new_qi for an untagged item; for a
\* tagged item with both norms non-zero it is old_qi - cos * embedding_diff
\* (women, cos < 0), old_qi + cos * embedding_diff (men, cos > 0), and new_qi in
\* every other case, cos being the cosine of clusters_diff and embedding_diff.
C2_CommittedItemFactors ==
    Processed =>
        LET item == LastItem
            old_qi == pre.qi[item]
            new_qi == loc.new_qi
            embedding_diff == VSub(new_qi, old_qi)
            cos == loc.cosine_sim
        IN  IF ~Tagged(item) THEN qi[item] = new_qi
            ELSE (~Zero(clusters_diff) /\ ~Zero(embedding_diff)) =>
                   /\ IsCosine(cos, clusters_diff, embedding_diff)
                   /\ qi[item] =
                        CASE item \in is_women_dict /\ Lt(cos, R(0)) ->
                               VSub(old_qi, VScale(cos, embedding_diff))
                          [] item \in is_men_dict /\ Lt(R(0), cos) ->
                               VAdd(old_qi, VScale(cos, embedding_diff))
                          [] OTHER -> new_qi

C2_Witness ==
    /\ Processed
    /\ LastItem \in is_women_dict
    /\ ~Raised(loc.cosine_sim)
    /\ Lt(loc.cosine_sim, R(0)) /\ Lt(R(-1), loc.cosine_sim)
    /\ qi[LastItem] # loc.new_qi

\* C3: for a tagged item whose embedding_diff or clusters_diff has zero norm,
\* the cosine similarity is taken to be 0: nothing is raised and qi[item] is
\* committed as new_qi.
C3_DegenerateCosineIsZero ==
    (/\ Processed
     /\ Tagged(LastItem)
     /\ Zero(clusters_diff) \/ Zero(VSub(loc.new_qi, pre.qi[LastItem])))
    => /\ pc # "ZeroDivisionError"
       /\ loc.cosine_sim = R(0)
       /\ qi[LastItem] = loc.new_qi

\* C7: a violating update is damped more the stronger the violation: with
\* |cos| below 1/2 the committed value lies nearer to new_qi than to old_qi,
\* with |cos| above 1/2 nearer to old_qi than to new_qi.
C7_DampingGrowsWithViolation ==
    Damped =>
        LET k == AbsR(loc.cosine_sim)
            toOld == SumSq(VSub(qi[LastItem], pre.qi[LastItem]))
            toNew == SumSq(VSub(qi[LastItem], loc.new_qi))
        IN  /\ Lt(k, <<1, 2>>) => Lt(toNew, toOld)
            /\ Lt(<<1, 2>>, k) => Lt(toOld, toNew)

\* The parameters left by rows 0 .. k-1 processed in index order.
RECURSIVE AfterRows(_)
AfterRows(k) ==
    IF k = 0 THEN entry.params
    ELSE LET out == RowUpdate(AfterRows(k - 1), X[k - 1])
         IN  [bu |-> out.bu, bi |-> out.bi, pu |-> out.pu, qi |-> out.qi]

\* C8: the rows are processed in index order, each once, every row on the
\* parameters left by the rows before it, and the call then returns having
\* processed all n rows.
C8_EveryRowOnceInOrder ==
    /\ order = [k \in 1 .. Len(order) |-> k - 1]
    /\ Params = AfterRows(Len(order))
    /\ pc # "run_epoch" => pc = "returned" /\ Len(order) = NRows(X)

\* C9: in a damping branch the committed qi[item] is old_qi + |cos| *
\* embedding_diff with 0 < |cos| <= 1: it differs from old_qi and every
\* component lies between those of old_qi and new_qi.
C9_DampedNotZeroedNoOvershoot ==
    Damped =>
        LET item == LastItem
            old_qi == pre.qi[item]
            new_qi == loc.new_qi
            k == AbsR(loc.cosine_sim)
        IN  /\ Lt(R(0), k) /\ ~Lt(R(1), k)
            /\ qi[item] = VAdd(old_qi, VScale(k, VSub(new_qi, old_qi)))
            /\ qi[item] # old_qi
            /\ \A f \in 0 .. n_factors - 1 :
                 \/ ~Lt(qi[item][f], old_qi[f]) /\ ~Lt(new_qi[f], qi[item][f])
                 \/ ~Lt(old_qi[f], qi[item][f]) /\ ~Lt(qi[item][f], new_qi[f])

C9_Witness ==
    /\ Damped
    /\ LastItem \in is_men_dict
    /\ Lt(loc.cosine_sim, R(1))
    /\ n_factors = 2

\* C10: only the entries of users and items that occur in a training row
\* change; the rows and the other arguments are unchanged; on an empty
\* training set the call returns the parameters as given.
C10_Frame ==
    /\ \A u \in DOMAIN entry.params.bu :
         (\A k \in DOMAIN X : ToInt(X[k][1]) # u) =>
             bu[u] = entry.params.bu[u] /\ pu[u] = entry.params.pu[u]
    /\ \A it \in DOMAIN entry.params.bi :
         (\A k \in DOMAIN X : ToInt(X[k][2]) # it) =>
             bi[it] = entry.params.bi[it] /\ qi[it] = entry.params.qi[it]
    /\ [Arguments EXCEPT !.params = entry.params] = entry
    /\ NRows(X) = 0 => Params = entry.params /\ pc \in {"run_epoch", "returned"}

C10_Witness ==
    /\ pc = "returned"
    /\ NRows(X) = 2
    /\ \E u \in DOMAIN bu : \A k \in DOMAIN X : ToInt(X[k][1]) # u
    /\ \E it \in DOMAIN bi : \A k \in DOMAIN X : ToInt(X[k][2]) # it
    /\ \E u \in DOMAIN bu : bu[u] # entry.params.bu[u] /\ pu[u] # entry.params.pu[u]
    /\ \E it \in DOMAIN bi : bi[it] # entry.params.bi[it] /\ qi[it] # entry.params.qi[it]

(***************************************************************************)
(* Properties of _compute_val_metrics (specification SpecVal).             *)
(***************************************************************************)
\* C4: on a validation set of zero rows the call ends in an error and never
\* returns a (loss, rmse, mae) triple.
C4_EmptyValidationSetFails ==
    NRows(X_val) = 0 =>
        /\ metrics = <<>>
        /\ pc # "returned"
        /\ pc # "compute_val_metrics" => pc = "ZeroDivisionError"

C4_Witness == NRows(X_val) = 0 /\ pc = "ZeroDivisionError"

ExpectedResidual(row) ==
    LET user == ToInt(row[1])
        item == ToInt(row[2])
        b_u == IF user >= 0 THEN bu[user] ELSE R(0)
        b_i == IF item >= 0 THEN bi[item] ELSE R(0)
        dot == IF user >= 0 /\ item >= 0 THEN Dot(pu[user], qi[item]) ELSE R(0)
    IN  Sub(row[3], Add(Add(Add(global_mean, b_u), b_i), dot))

\* C5: every residual is rating - pred with the bias and factor terms of
\* sentinel users and items omitted; loss is the mean of the squared residuals
\* and mae the mean of the absolute residuals; all-zero residuals give
\* loss = rmse = mae = 0.
C5_ValidationMetrics ==
    /\ \A k \in 1 .. Len(residuals) : residuals[k] = ExpectedResidual(X_val[k - 1])
    /\ \A k \in DOMAIN X_val :
         (ToInt(X_val[k][1]) = -1 /\ ToInt(X_val[k][2]) >= 0 /\ k < Len(residuals)) =>
             residuals[k + 1] =
                 Sub(Sub(X_val[k][3], global_mean), bi[ToInt(X_val[k][2])])
    /\ pc = "returned" =>
         LET n == NRows(X_val)
             sq == [k \in 1 .. n |-> Mul(ExpectedResidual(X_val[k - 1]),
                                         ExpectedResidual(X_val[k - 1]))]
             ab == [k \in 1 .. n |-> AbsR(ExpectedResidual(X_val[k - 1]))]
         IN  /\ Len(residuals) = n
             /\ Len(metrics) = 3
             /\ Mul(metrics[1], R(n)) = SumSeq(sq)
             /\ Mul(metrics[3], R(n)) = SumSeq(ab)
             /\ (\A k \in 1 .. n : residuals[k] = R(0)) =>
                    metrics = <<R(0), R(0), R(0)>>

C5_Witness ==
    /\ pc = "returned"
    /\ NRows(X_val) = 2
    /\ ToInt(X_val[0][1]) = -1 /\ ToInt(X_val[0][2]) = 1
    /\ ToInt(X_val[1][1]) = 0 /\ ToInt(X_val[1][2]) = 1
    /\ metrics[1] # R(0)

(***************************************************************************)
(* Properties of _shuffle (specification SpecShuffle).                     *)
(***************************************************************************)
Occurrences(A, row) == Cardinality({k \in DOMAIN A : A[k] = row})

\* C6: the shuffled set has the same number of rows and the same multiset of
\* rows as the set passed in; every row is one of the original rows, whole.
C6_ShuffleIsPermutation ==
    /\ DOMAIN X = DOMAIN entry.X
    /\ \A k \in DOMAIN X :
         /\ \E j \in DOMAIN entry.X : X[k] = entry.X[j]
         /\ Occurrences(X, X[k]) = Occurrences(entry.X, X[k])

C6_Witness ==
    /\ pc = "returned"
    /\ NRows(X) = 3
    /\ X # entry.X
    /\ X[0] = entry.X[2] /\ X[0] # X[1]

============================================================================
